---- MODULE Spec2Model ----
(***************************************************************************)
(* Verification model of the Coulomb wave function engine of MARLEY        *)
(* (meta_numerics.hh) and of the classes declared beside it.               *)
(*                                                                         *)
(* The header meta_numerics.hh holds the constants, the OdeStepper and     *)
(* SolutionPair classes and the declarations of the numerical routines.    *)
(* The bodies of the routines live in meta_numerics.cc; where a definition *)
(* below models such a body it says so.                                    *)
(***************************************************************************)
EXTENDS Integers, Sequences, FiniteSets, TLC

(***************************************************************************)
(* A C++ double, reduced.  A finite non-negative double is modelled by its *)
(* bit pattern with a short mantissa: bits = (e + ExpBias) * MantSteps + m *)
(* stands for 2^e * (1 + m / MantSteps).  As for IEEE 754 doubles, the     *)
(* order of two non-negative finite values is the order of their bit       *)
(* patterns.  bits = 0 is zero.  NaN compares false with everything.       *)
(***************************************************************************)
ExpBias == 64

MantSteps == 4

Dbl(b) == [nan |-> FALSE, neg |-> FALSE, bits |-> b]

NegDbl(b) == [nan |-> FALSE, neg |-> TRUE, bits |-> b]

NaN == [nan |-> TRUE, neg |-> FALSE, bits |-> 0]

Zero == Dbl(0)

\* std::pow(2.0, e) for an integer e
Pow2(e) == Dbl((e + ExpBias) * MantSteps)

\* a < b on doubles
DoubleLess(a, b) ==
  IF a.nan \/ b.nan THEN FALSE
  ELSE IF a.neg /\ b.neg THEN a.bits > b.bits
  ELSE IF a.neg THEN a.bits > 0 \/ b.bits > 0
  ELSE IF b.neg THEN FALSE
  ELSE a.bits < b.bits

\* a >= b on doubles
DoubleGeq(a, b) ==
  IF a.nan \/ b.nan THEN FALSE
  ELSE ~DoubleLess(a, b)

\* a ceiling one iteration too high
SeriesMax_offByOne == 250 + 1

\* a ceiling out of reach of any loop
SeriesMax_unbounded == 1000 * 1000

\* a ceiling ten times too low
SeriesMax_short == 250 \div 10

\* maximum number of iterations of a series
SeriesMax == 250

\* the exponent of MaxAccuracy = std::pow(2.0, -49)
MaxAccuracyExponent == -49

MaxAccuracy == Pow2(MaxAccuracyExponent)

One == Pow2(0)

(***************************************************************************)
(* Bounds of the model.                                                    *)
(***************************************************************************)
\* doubles tried as accuracy values lie within this many bit patterns of
\* MaxAccuracy and of 1.0
Neighbourhood == 1

\* the grid of the independent variable is 0 .. MaxX
MaxX == 4

\* direct Step() calls are made while count is below this
MaxCount == 4

\* a trial step makes 1 .. MaxSubsteps evaluations of the right-hand side
MaxSubsteps == 2

\* the ceiling of the evaluation count in Integrate
EvalCeiling == 4

\* iterations of one primitive followed by the model; a primitive still
\* iterating after this many is taken never to return
IterCap == 300

\* the threads that call CoulombF and CoulombG
NThreads == 2

\* the asymptotic expansion is used for rho > AsymptoticMargin + L(L+1) + eta^2
AsymptoticMargin == 32

\* the model lets the vectors of an Event grow to this many particles
MaxParticles == 3

\* X of the series' convergence criterion: rho < sqrt(X) (1 + sqrt(L)) and
\* 2 eta rho < X (1 + L)
SeriesX == 16

\* sqrt(SeriesX)
SqrtSeriesX == 4

VARIABLES
  X,          \* OdeStepper::X, in grid units
  Y,          \* OdeStepper::Y
  DeltaX,     \* OdeStepper::DeltaX, in grid units
  accuracy,   \* OdeStepper::accuracy
  count,      \* OdeStepper::count
  count0,     \* the value count held when the stepper was created
  rhsCalls,   \* number of calls of RightHandSide made so far
  odePc,      \* "idle" or "integrating": the position inside Integrate
  odeTarget,  \* X1 of the Integrate call in progress or just ended, else 0
  odeArg,     \* the argument of the set_accuracy call just made, else zero
  odeResult,  \* how the last stepper call ended
  cpc,        \* per thread: "idle", "validate", "dispatch", "running", "done"
  carg,       \* per thread: the (fn, L, eta, rho) of its call
  tried,      \* per thread: the regime attempts that have failed in this call, in order
  cres,       \* per thread: the outcome of its call
  oracle,     \* the iterations at which each primitive's accuracy test passes
  bernoulli,  \* the shared table Bernoulli
  lanczosC,   \* the shared table Lanczos::LanczosC
  ref,        \* a completed call kept for comparison with later ones
  pair,       \* a SolutionPair: its fields j, jPrime, y, yPrime
  pairMade,   \* how the SolutionPair was constructed, and with which arguments
  pairCall,   \* the last member function called on the SolutionPair
  initial_particles_,  \* Event::initial_particles_, the particles pointed to
  final_particles_,    \* Event::final_particles_, the particles pointed to
  Ex_,        \* Event::Ex_
  evMade,     \* how the Event was constructed
  evBase,     \* the particles the constructor or the last read put into the Event
  evSince,    \* the particles added by add_..._particle since the last clear or read
  evCall      \* the last member function called on the Event, and how it ended

odeVars == <<X, Y, DeltaX, accuracy, count, count0, rhsCalls, odePc, odeTarget, odeArg, odeResult>>

callVars == <<cpc, carg, tried, cres, oracle, bernoulli, lanczosC, ref>>

pairVars == <<pair, pairMade, pairCall>>

eventVars == <<initial_particles_, final_particles_, Ex_, evMade, evBase, evSince, evCall>>

objVars == <<pairVars, eventVars>>

vars == <<odeVars, callVars, objVars>>

(***************************************************************************)
(* OdeStepper                                                              *)
(***************************************************************************)

\* the doubles handed to set_accuracy: NaN, zero, a negative value, and the
\* bit patterns around MaxAccuracy and around 1.0
AccuracyValues ==
  {NaN, Zero, NegDbl(One.bits)}
    \cup {Dbl(b) : b \in (MaxAccuracy.bits - Neighbourhood) .. (MaxAccuracy.bits + Neighbourhood)}
    \cup {Dbl(b) : b \in (One.bits - Neighbourhood) .. (One.bits + Neighbourhood)}

\* the condition under which set_accuracy throws std::runtime_error
set_accuracy_throws_gt(value) ==
  DoubleLess(value, MaxAccuracy) \/ DoubleLess(One, value)

set_accuracy_throws(value) ==
  DoubleLess(value, MaxAccuracy) \/ DoubleGeq(value, One)

\* set_accuracy with the assignment made before the test
set_accuracy_assignFirst(value) ==
  /\ odePc = "idle"
  /\ odeArg' = value
  /\ accuracy' = value
  /\ odeResult' = IF set_accuracy_throws(value) THEN "InvalidAccuracy" ELSE "AccuracySet"
  /\ odeTarget' = 0
  /\ UNCHANGED <<X, Y, DeltaX, count, count0, rhsCalls, odePc, callVars, objVars>>

set_accuracy(value) ==
  /\ odePc = "idle"
  /\ odeArg' = value
  /\ IF set_accuracy_throws(value)
       THEN /\ odeResult' = "InvalidAccuracy"
            /\ accuracy' = accuracy
       ELSE /\ odeResult' = "AccuracySet"
            /\ accuracy' = value
  /\ odeTarget' = 0
  /\ UNCHANGED <<X, Y, DeltaX, count, count0, rhsCalls, odePc, callVars, objVars>>

\* the values of the dependent variable: its parity
YValues == {0, 1}

\* the caller-supplied right-hand side, here a fixed function on the grid
RightHandSide(x, y) == (x + y) % Cardinality(YValues)

\* what Evaluate does to count: count++
EvaluateCount_twice(c) == c + 2

EvaluateCount_skip(c) == c

EvaluateCount(c) == c + 1

\* count after n calls of Evaluate
RECURSIVE EvaluateTimes(_, _)
EvaluateTimes(c, n) == IF n = 0 THEN c ELSE EvaluateTimes(EvaluateCount(c), n - 1)

EvaluationCount == count

\* the caller assigns the public fields X, Y and DeltaX
Configure(x, y, dx) ==
  /\ odePc = "idle"
  /\ X' = x /\ Y' = y /\ DeltaX' = dx
  /\ odeResult' = "Configured"
  /\ odeTarget' = 0 /\ odeArg' = Zero
  /\ UNCHANGED <<accuracy, count, count0, rhsCalls, odePc, callVars, objVars>>

Abs(n) == IF n < 0 THEN -n ELSE n

Sign(n) == IF n > 0 THEN 1 ELSE IF n < 0 THEN -1 ELSE 0

\* half a step size; a step of one grid unit underflows to zero
Halve(d) == Sign(d) * (Abs(d) \div 2)

(***************************************************************************)
(* One Step() with step size d: a trial step of n evaluations whose error  *)
(* estimate either meets the accuracy (the step is taken, and the step     *)
(* size kept or grown) or does not (X and Y stay, the step size shrinks).  *)
(***************************************************************************)
StepWith(d) ==
  \E n \in 1 .. MaxSubsteps, accept \in BOOLEAN, grow \in BOOLEAN :
    /\ count' = EvaluateTimes(count, n)
    /\ rhsCalls' = rhsCalls + n
    /\ IF accept
         THEN /\ X' = X + d
              /\ Y' = (Y + n * RightHandSide(X, Y)) % Cardinality(YValues)
              /\ DeltaX' = IF grow /\ 2 * Abs(d) <= MaxX THEN 2 * d ELSE d
         ELSE /\ X' = X
              /\ Y' = Y
              /\ DeltaX' = Halve(d)

\* a Step() called directly by the owner of the stepper
Step ==
  /\ odePc = "idle"
  /\ count < MaxCount
  /\ X + DeltaX \in 0 .. MaxX
  /\ StepWith(DeltaX)
  /\ odeResult' = "Stepped"
  /\ odeTarget' = 0 /\ odeArg' = Zero
  /\ UNCHANGED <<accuracy, count0, odePc, callVars, objVars>>

\* Integrate(X1): entry; the step is turned towards X1
IntegrateBegin(X1) ==
  /\ odePc = "idle"
  /\ odePc' = "integrating"
  /\ odeTarget' = X1
  /\ DeltaX' = IF Sign(DeltaX) # Sign(X1 - X) THEN -DeltaX ELSE DeltaX
  /\ odeResult' = "none"
  /\ odeArg' = Zero
  /\ UNCHANGED <<X, Y, accuracy, count, count0, rhsCalls, callVars, objVars>>

\* the step Integrate takes next: never past X1
ClampedStep(dx, x, X1) == IF Abs(dx) > Abs(X1 - x) THEN X1 - x ELSE dx

\* Integrate(X1): one turn of its loop
IntegrateLoop ==
  /\ odePc = "integrating"
  /\ IF X = odeTarget
       THEN /\ odePc' = "idle"
            /\ odeResult' = "Integrated"
            /\ UNCHANGED <<X, Y, DeltaX, count, rhsCalls>>
       ELSE IF DeltaX = 0 \/ count > EvalCeiling
         THEN /\ odePc' = "idle"
              /\ odeResult' = "ConvergenceError"
              /\ UNCHANGED <<X, Y, DeltaX, count, rhsCalls>>
         ELSE /\ StepWith(ClampedStep(DeltaX, X, odeTarget))
              /\ UNCHANGED <<odePc, odeResult>>
  /\ UNCHANGED <<accuracy, count0, odeTarget, odeArg, callVars, objVars>>

(***************************************************************************)
(* CoulombF and CoulombG.  The header declares them and documents their    *)
(* arguments; the dispatch between the regimes is modelled from the design *)
(* of the engine: validation, then the applicable regimes in the order     *)
(* series, Steed's method, asymptotic expansion, direct integration, each  *)
(* tried when the one before it has failed to converge.                    *)
(***************************************************************************)
Threads == 1 .. NThreads

\* the even Bernoulli numbers, as the header writes them
Bernoulli ==
  << "1.0", "1.0 / 6.0", "-1.0 / 30.0", "1.0 / 42.0", "-1.0 / 30.0",
     "5.0 / 66.0", "-691.0 / 2730.0", "7.0 / 6.0", "-3617.0 / 510.0",
     "43867.0 / 798.0", "-174611.0 / 330.0", "854513.0 / 138.0",
     "-236364091.0 / 2730.0", "8553103.0 / 6.0", "-23749461029.0 / 870.0",
     "8615841276005.0 / 14322.0" >>

\* Lanczos::LanczosC: declared static const, its entries are not in the header
LanczosC == << "LanczosC[0]", "LanczosC[1]", "LanczosC[2]" >>

\* a const table after a routine has used it
ConstTable_written(tbl) == [tbl EXCEPT ![1] = "0.0"]

ConstTable(tbl) == tbl

\* the arguments CoulombF and CoulombG accept: L and rho non-negative
ValidArgs_LOnly(L, rho) == L >= 0

ValidArgs(L, rho) == L >= 0 /\ rho >= 0

\* rho compared with the turning point of L = 0, whatever L is
AtOrAboveTurningPoint_ofL0(L, eta, rho) ==
  /\ rho - eta >= 0
  /\ (rho - eta) * (rho - eta) >= eta * eta

\* rho compared with the turning point of L + 1
AtOrAboveTurningPoint_ofNextL(L, eta, rho) ==
  /\ rho - eta >= 0
  /\ (rho - eta) * (rho - eta) >= eta * eta + (L + 1) * (L + 2)

\* rho >= CoulombTurningPoint(L, eta) = eta + sqrt(eta^2 + L (L + 1))
AtOrAboveTurningPoint(L, eta, rho) ==
  /\ rho - eta >= 0
  /\ (rho - eta) * (rho - eta) >= eta * eta + L * (L + 1)

\* rho sqrt(1 + sqrt(L)) < X and 2 eta rho / (1 + L) < X, for rho >= 0 and
\* L >= 0: rho^2 (1 + sqrt(L)) < X^2, that is sqrt(L) rho^2 < X^2 - rho^2
SeriesApplicable_rhoTimesRoot(L, eta, rho) ==
  /\ \/ rho = 0
     \/ /\ rho * rho < SeriesX * SeriesX
        /\ L * rho * rho * rho * rho
             < (SeriesX * SeriesX - rho * rho) * (SeriesX * SeriesX - rho * rho)
  /\ 2 * eta * rho < SeriesX * (1 + L)

\* rho < sqrt(X) (1 + sqrt(L)) and 2 eta rho < X (1 + L)
SeriesApplicable(L, eta, rho) ==
  /\ \/ rho < SqrtSeriesX
     \/ (rho - SqrtSeriesX) * (rho - SqrtSeriesX) < SeriesX * L
  /\ 2 * eta * rho < SeriesX * (1 + L)

AsymptoticApplicable(L, eta, rho) ==
  rho > AsymptoticMargin + L * (L + 1) + eta * eta

RegimeOrder == << "Series", "Steed", "Asymptotic", "Integrate" >>

Applicable(r, a) ==
  CASE r = "Series" -> SeriesApplicable(a.L, a.eta, a.rho)
    [] r = "Steed" -> AtOrAboveTurningPoint(a.L, a.eta, a.rho)
    [] r = "Asymptotic" -> AsymptoticApplicable(a.L, a.eta, a.rho)
    [] r = "Integrate" -> ~AtOrAboveTurningPoint(a.L, a.eta, a.rho)

\* the iterative primitives a regime runs, in order
PrimitivesOf(r) ==
  CASE r = "Series" -> << "Series" >>
    [] r = "Steed" -> << "CF1", "CF2" >>
    [] r = "Asymptotic" -> << "Asymptotic" >>
    [] r = "Integrate" -> << "Integrate" >>

Primitives == {"Series", "CF1", "CF2", "Asymptotic", "Integrate"}

\* the ceiling of a primitive: SeriesMax iterations, or the evaluation count
Ceiling(p) == IF p = "Integrate" THEN EvalCeiling ELSE SeriesMax

\* the positions in RegimeOrder after position i of regimes applicable to a
LaterApplicable(a, i) ==
  {j \in (i + 1) .. Len(RegimeOrder) : Applicable(RegimeOrder[j], a)}

Position(r) == CHOOSE i \in 1 .. Len(RegimeOrder) : RegimeOrder[i] = r

SetMin(S) == CHOOSE x \in S : \A y \in S : x <= y

\* the regime tried after those of failed have failed: the next applicable
\* one in RegimeOrder, or "none"
NextRegime_restart(a, failed) ==
  LET js == LaterApplicable(a, 0)
  IN IF js = {} THEN "none" ELSE RegimeOrder[SetMin(js)]

NextRegime(a, failed) ==
  LET last == IF failed = <<>> THEN 0 ELSE Position(failed[Len(failed)].regime)
      js == LaterApplicable(a, last)
  IN IF js = {} THEN "none" ELSE RegimeOrder[SetMin(js)]

(***************************************************************************)
(* One iterative primitive: the loop for (k = k0; k < ceiling; k++), each  *)
(* turn adding a term and testing it against the target accuracy; pass is  *)
(* the set of iterations at which the test would pass.  The loop is left   *)
(* at the first k at which one of its exits is open: k >= ceiling (the     *)
(* primitive fails), or the test passes (it returns).  The model follows   *)
(* it for IterCap iterations; a loop still running then is hung.           *)
(***************************************************************************)
Max(m, n) == IF m >= n THEN m ELSE n

\* the least k >= k0 at which an exit of the loop is open, or IterCap
FirstExit(k0, ceiling, pass) ==
  SetMin({j \in pass : j >= k0} \cup {Max(k0, ceiling), Max(k0, IterCap)})

Iterate(k0, ceiling, pass) ==
  LET k == FirstExit(k0, ceiling, pass)
  IN IF k >= ceiling THEN [converged |-> FALSE, hung |-> FALSE, iters |-> k]
     ELSE IF k \in pass THEN [converged |-> TRUE, hung |-> FALSE, iters |-> k]
     ELSE [converged |-> FALSE, hung |-> TRUE, iters |-> k]

\* the primitives of a regime run in order; the regime converges when all do
RECURSIVE RunPrimitives(_, _, _)
RunPrimitives(ps, i, passOf) ==
  IF i > Len(ps) THEN [converged |-> TRUE, hung |-> FALSE, iters |-> <<>>]
  ELSE LET one == Iterate(1, Ceiling(ps[i]), passOf[ps[i]])
       IN IF ~one.converged
            THEN [converged |-> FALSE, hung |-> one.hung, iters |-> << one.iters >>]
            ELSE LET rest == RunPrimitives(ps, i + 1, passOf)
                 IN [converged |-> rest.converged, hung |-> rest.hung,
                     iters |-> << one.iters >> \o rest.iters]

RunRegime(r, passOf) == RunPrimitives(PrimitivesOf(r), 1, passOf)

NoArg == [fn |-> "none", L |-> 0, eta |-> 0, rho |-> 0]

NoResult == [kind |-> "none", by |-> "none", accurate |-> FALSE, iters |-> <<>>,
             tables |-> <<>>, pass |-> <<>>]

DomainError == [NoResult EXCEPT !.kind = "DomainError"]

ConvergenceError == [NoResult EXCEPT !.kind = "ConvergenceError"]

\* the value a regime returns, as a term over what it was computed from
ValueWith(r, run, passOf, b, l) ==
  [kind |-> "value", by |-> r, accurate |-> run.converged, iters |-> run.iters,
   tables |-> << b, l >>,
   pass |-> [i \in 1 .. Len(PrimitivesOf(r)) |-> passOf[PrimitivesOf(r)[i]]]]

Value(r, run, passOf) == ValueWith(r, run, passOf, bernoulli, lanczosC)

\* a regime's failed attempt, as recorded
Failure(r, run, passOf) ==
  [regime |-> r, iters |-> run.iters,
   pass |-> [i \in 1 .. Len(run.iters) |-> passOf[PrimitivesOf(r)[i]]]]

\* what the dispatch does with a regime that failed and has no successor
Exhausted(r, run, passOf) == ConvergenceError

\* a thread calls CoulombF or CoulombG
Call(t, a) ==
  /\ cpc[t] = "idle"
  /\ cpc' = [cpc EXCEPT ![t] = "validate"]
  /\ carg' = [carg EXCEPT ![t] = a]
  /\ tried' = [tried EXCEPT ![t] = <<>>]
  /\ cres' = [cres EXCEPT ![t] = NoResult]
  /\ UNCHANGED <<oracle, bernoulli, lanczosC, ref, odeVars, objVars>>

\* the validation of L and rho
Validate(t) ==
  /\ cpc[t] = "validate"
  /\ IF ValidArgs(carg[t].L, carg[t].rho)
       THEN /\ cpc' = [cpc EXCEPT ![t] = "dispatch"]
            /\ cres' = cres
       ELSE /\ cpc' = [cpc EXCEPT ![t] = "done"]
            /\ cres' = [cres EXCEPT ![t] = DomainError]
  /\ UNCHANGED <<carg, tried, oracle, bernoulli, lanczosC, ref, odeVars, objVars>>

\* the next applicable regime runs, with passOf the iterations at which the
\* accuracy test of each primitive passes
Attempt(t, passOf) ==
  /\ cpc[t] = "dispatch"
  /\ \E r \in {NextRegime(carg[t], tried[t])} :
       /\ r # "none"
       /\ \E run \in {RunRegime(r, passOf)} :
            /\ bernoulli' = ConstTable(bernoulli)
            /\ lanczosC' = ConstTable(lanczosC)
            /\ IF run.hung
                 THEN /\ cpc' = [cpc EXCEPT ![t] = "running"]
                      /\ UNCHANGED <<tried, cres>>
                 ELSE IF run.converged
                   THEN /\ cpc' = [cpc EXCEPT ![t] = "done"]
                        /\ cres' = [cres EXCEPT ![t] = Value(r, run, passOf)]
                        /\ tried' = tried
                   ELSE \E failed \in {Append(tried[t], Failure(r, run, passOf))} :
                        /\ tried' = [tried EXCEPT ![t] = failed]
                        /\ IF NextRegime(carg[t], failed) = "none"
                             THEN /\ cpc' = [cpc EXCEPT ![t] = "done"]
                                  /\ cres' = [cres EXCEPT ![t] = Exhausted(r, run, passOf)]
                             ELSE UNCHANGED <<cpc, cres>>
  /\ UNCHANGED <<carg, oracle, ref, odeVars, objVars>>

\* the call returns to its caller and its local state is discarded; keep
\* says whether this call is the one kept for comparison
Return(t, keep) ==
  /\ cpc[t] = "done"
  /\ ref' = IF keep THEN [arg |-> carg[t], tried |-> tried[t], res |-> cres[t]] ELSE ref
  /\ cpc' = [cpc EXCEPT ![t] = "idle"]
  /\ carg' = [carg EXCEPT ![t] = NoArg]
  /\ tried' = [tried EXCEPT ![t] = <<>>]
  /\ cres' = [cres EXCEPT ![t] = NoResult]
  /\ UNCHANGED <<oracle, bernoulli, lanczosC, odeVars, objVars>>

(***************************************************************************)
(* SolutionPair: four private doubles, a getter and a setter for each, a   *)
(* default constructor that assigns nothing and a constructor that assigns *)
(* all four.                                                               *)
(***************************************************************************)
PairFields == {"j", "jPrime", "y", "yPrime"}

\* the doubles a field is given; their arithmetic plays no part here
PairValues == {0, 1}

NoPair == [f \in PairFields |-> 0]

NoPairCall == [op |-> "none", field |-> "none", value |-> 0]

\* SolutionPair(): no member is assigned, each field holds what its storage held
SolutionPairDefault ==
  /\ pairMade.by = "none"
  /\ pair' \in [PairFields -> PairValues]
  /\ pairMade' = [by |-> "default", args |-> NoPair]
  /\ pairCall' = NoPairCall
  /\ UNCHANGED <<odeVars, callVars, eventVars>>

\* SolutionPair(j, jPrime, y, yPrime)
SolutionPair(j, jPrime, y, yPrime) ==
  /\ pairMade.by = "none"
  /\ pair' = [f \in PairFields |->
                CASE f = "j" -> j [] f = "jPrime" -> jPrime [] f = "y" -> y [] f = "yPrime" -> yPrime]
  /\ pairMade' = [by |-> "values", args |-> pair']
  /\ pairCall' = NoPairCall
  /\ UNCHANGED <<odeVars, callVars, eventVars>>

\* the field each accessor pair reads and writes
FieldOf(accessor) ==
  CASE accessor = "FirstSolutionValue" -> "j"
    [] accessor = "FirstSolutionDerivative" -> "jPrime"
    [] accessor = "SecondSolutionValue" -> "y"
    [] accessor = "SecondSolutionDerivative" -> "yPrime"

Accessors ==
  {"FirstSolutionValue", "FirstSolutionDerivative",
   "SecondSolutionValue", "SecondSolutionDerivative"}

\* a setter that leaves its field alone
SetField_ignored(p, accessor, value) == p

\* what the overload accessor(double value) does to the fields
SetField(p, accessor, value) == [p EXCEPT ![FieldOf(accessor)] = value]

\* what the overload accessor() returns
GetField(p, accessor) == p[FieldOf(accessor)]

\* accessor(value) is called
Setter(accessor, value) ==
  /\ pairMade.by # "none"
  /\ pair' = SetField(pair, accessor, value)
  /\ pairCall' = [op |-> "set", field |-> FieldOf(accessor), value |-> value]
  /\ UNCHANGED <<pairMade, odeVars, callVars, eventVars>>

\* accessor() is called
Getter(accessor) ==
  /\ pairMade.by # "none"
  /\ pairCall' = [op |-> "get", field |-> FieldOf(accessor), value |-> GetField(pair, accessor)]
  /\ UNCHANGED <<pair, pairMade, odeVars, callVars, eventVars>>

PairInit ==
  /\ pair = NoPair
  /\ pairMade = [by |-> "none", args |-> NoPair]
  /\ pairCall = NoPairCall

(***************************************************************************)
(* Event.  The header defines the counts and the indexed accessors inline  *)
(* and documents the other member functions, whose bodies are in Event.cc; *)
(* those are modelled as their declarations document them.  A Particle is  *)
(* modelled by its name.                                                   *)
(***************************************************************************)
\* the particle a default-constructed Particle is
Dummy == "dummy"

Particles == {"nu", "Ar", "e", "K"}

\* marley_utils::is_ion and marley_utils::is_lepton
IsIon(p) == p \in {"Ar", "K"}

IsLepton(p) == p \in {"nu", "e"}

ExValues == {0, 1}

\* the particles handed to add_initial_particle and add_final_particle
AddedParticles == {"e", "K"}

NoParticles == [initial |-> <<>>, final |-> <<>>]

NoEventCall ==
  [op |-> "none", afterClear |-> FALSE, idx |-> 0, thrown |-> FALSE, result |-> "none",
   good |-> TRUE, held |-> FALSE]

\* the record of a call of op that returned result: afterClear says that the
\* call before it was a clear(), held that the event held particles
Called(op, result) ==
  [NoEventCall EXCEPT !.op = op, !.afterClear = (evCall.op = "clear"), !.result = result,
                      !.held = (Len(initial_particles_) + Len(final_particles_) > 0)]

initial_particle_count == Len(initial_particles_)

final_particle_count == Len(final_particles_)

\* std::vector::at with the bound test off by one
At_inclusive(vec, idx) ==
  IF idx > Len(vec) THEN [thrown |-> TRUE, result |-> "none"]
  ELSE [thrown |-> FALSE, result |-> IF idx < Len(vec) THEN vec[idx + 1] ELSE Dummy]

\* *vec.at( idx ): std::out_of_range when idx >= vec.size()
At(vec, idx) ==
  IF idx >= Len(vec) THEN [thrown |-> TRUE, result |-> "none"]
  ELSE [thrown |-> FALSE, result |-> vec[idx + 1]]

\* Event(double Ex = 0.): an event with dummy particles, the projectile and
\* the target ingoing, the ejectile and the residue outgoing
EventDefault(Ex) ==
  /\ evMade.by = "none"
  /\ initial_particles_' = << Dummy, Dummy >>
  /\ final_particles_' = << Dummy, Dummy >>
  /\ Ex_' = Ex
  /\ evMade' = [by |-> "default", Ex |-> Ex]
  /\ evBase' = [initial |-> initial_particles_', final |-> final_particles_']
  /\ evSince' = NoParticles
  /\ evCall' = Called("Event", "none")
  /\ UNCHANGED <<odeVars, callVars, pairVars>>

\* Event(a, b, c, d, Ex, twoJ, P): a two-two scattering event
EventTwoTwo(a, b, c, d, Ex) ==
  /\ evMade.by = "none"
  /\ initial_particles_' = << a, b >>
  /\ final_particles_' = << c, d >>
  /\ Ex_' = Ex
  /\ evMade' = [by |-> "twotwo", Ex |-> Ex]
  /\ evBase' = [initial |-> initial_particles_', final |-> final_particles_']
  /\ evSince' = NoParticles
  /\ evCall' = Called("Event", "none")
  /\ UNCHANGED <<odeVars, callVars, pairVars>>

\* add a Particle to a vector of particles
AddParticle(vec, p) == Append(vec, p)

add_initial_particle(p) ==
  /\ evMade.by # "none"
  /\ Len(initial_particles_) < MaxParticles
  /\ initial_particles_' = AddParticle(initial_particles_, p)
  /\ evSince' = [evSince EXCEPT !.initial = Append(@, p)]
  /\ evCall' = Called("add_initial_particle", "none")
  /\ UNCHANGED <<final_particles_, Ex_, evMade, evBase, odeVars, callVars, pairVars>>

add_final_particle(p) ==
  /\ evMade.by # "none"
  /\ Len(final_particles_) < MaxParticles
  /\ final_particles_' = AddParticle(final_particles_, p)
  /\ evSince' = [evSince EXCEPT !.final = Append(@, p)]
  /\ evCall' = Called("add_final_particle", "none")
  /\ UNCHANGED <<initial_particles_, Ex_, evMade, evBase, odeVars, callVars, pairVars>>

\* initial_particle( idx )
initial_particle(idx) ==
  /\ evMade.by # "none"
  /\ evCall' = [Called("initial_particle", At(initial_particles_, idx).result)
                  EXCEPT !.idx = idx, !.thrown = At(initial_particles_, idx).thrown]
  /\ UNCHANGED <<initial_particles_, final_particles_, Ex_, evMade, evBase, evSince,
                 odeVars, callVars, pairVars>>

\* final_particle( idx )
final_particle(idx) ==
  /\ evMade.by # "none"
  /\ evCall' = [Called("final_particle", At(final_particles_, idx).result)
                  EXCEPT !.idx = idx, !.thrown = At(final_particles_, idx).thrown]
  /\ UNCHANGED <<initial_particles_, final_particles_, Ex_, evMade, evBase, evSince,
                 odeVars, callVars, pairVars>>

\* clear that leaves the excitation energy as it was
ClearedEx_kept(Ex) == Ex

\* clear(): the excitation energy is reset to zero
ClearedEx(Ex) == 0

\* delete_particles(): the vectors of initial and final particles are cleared
delete_particles ==
  /\ initial_particles_' = <<>>
  /\ final_particles_' = <<>>

clear ==
  /\ evMade.by # "none"
  /\ delete_particles
  /\ Ex_' = ClearedEx(Ex_)
  /\ evBase' = NoParticles
  /\ evSince' = NoParticles
  /\ evCall' = Called("clear", "none")
  /\ UNCHANGED <<evMade, odeVars, callVars, pairVars>>

(***************************************************************************)
(* An input stream holding one event: the particles a reader finds in it,  *)
(* the excitation energy, and whether the stream is still in a good state  *)
(* once the reader has tried to read the whole record (a stream that ends  *)
(* or is malformed part way through yields the particles before that       *)
(* point).                                                                 *)
(***************************************************************************)
Streams ==
  { [initial |-> << "nu", "Ar" >>, final |-> << "e", "K" >>, Ex |-> 1, good |-> TRUE],
    [initial |-> << "nu", "Ar" >>, final |-> << "e" >>, Ex |-> 0, good |-> FALSE],
    [initial |-> << "nu" >>, final |-> <<>>, Ex |-> 0, good |-> FALSE],
    [initial |-> <<>>, final |-> <<>>, Ex |-> 0, good |-> FALSE],
    [initial |-> << "nu", "Ar" >>, final |-> << "e", "K" >>, Ex |-> 1, good |-> FALSE],
    [initial |-> << "nu" >>, final |-> << "e", "K" >>, Ex |-> 0, good |-> TRUE],
    [initial |-> << "nu", "Ar" >>, final |-> << "e", "e", "K" >>, Ex |-> 0, good |-> TRUE],
    [initial |-> << "nu", "Ar" >>, final |-> << "e" >>, Ex |-> 1, good |-> TRUE] }

\* the particles of a vector that are ions, and those that are leptons
CountIons(vec) == Cardinality({i \in 1 .. Len(vec) : IsIon(vec[i])})

CountLeptons(vec) == Cardinality({i \in 1 .. Len(vec) : IsLepton(vec[i])})

\* the conditions under which read_hepevt throws a marley::Error
HepevtError(in) ==
  \/ Len(in.initial) # 2
  \/ CountIons(in.initial) # 1
  \/ CountLeptons(in.final) > 1
  \/ CountIons(in.final) = 0

\* read_hepevt returning false with what it had read left in the event
HepevtOutcomes_uncleared(in) ==
  IF in.good
    THEN {IF HepevtError(in) THEN "Error" ELSE "true"}
    ELSE {"false-uncleared"}

\* how read_hepevt can end: true when the stream is good after the attempt
\* to read the record, false otherwise, a marley::Error for a record that
\* breaks one of the conditions
HepevtOutcomes(in) ==
  IF in.good
    THEN {IF HepevtError(in) THEN "Error" ELSE "true"}
    ELSE {"false"} \cup (IF HepevtError(in) THEN {"Error"} ELSE {})

\* read_hepevt(in): the previous contents are deleted, then the record is read
read_hepevt(in) ==
  /\ evMade.by # "none"
  /\ \E outcome \in HepevtOutcomes(in) :
       /\ IF outcome = "false"
            THEN delete_particles /\ Ex_' = ClearedEx(Ex_) /\ evBase' = NoParticles
            ELSE /\ initial_particles_' = in.initial
                 /\ final_particles_' = in.final
                 /\ Ex_' = in.Ex
                 /\ evBase' = [initial |-> in.initial, final |-> in.final]
       /\ evCall' = [Called("read_hepevt", IF outcome = "true" THEN "true" ELSE "false")
                       EXCEPT !.thrown = (outcome = "Error"), !.good = in.good]
  /\ evSince' = NoParticles
  /\ UNCHANGED <<evMade, odeVars, callVars, pairVars>>

\* read(in): the previous contents are deleted, then the event is read
read(in) ==
  /\ evMade.by # "none"
  /\ initial_particles_' = in.initial
  /\ final_particles_' = in.final
  /\ Ex_' = in.Ex
  /\ evBase' = [initial |-> in.initial, final |-> in.final]
  /\ evSince' = NoParticles
  /\ evCall' = [Called("read", "none") EXCEPT !.good = in.good]
  /\ UNCHANGED <<evMade, odeVars, callVars, pairVars>>

EventInit ==
  /\ initial_particles_ = <<>>
  /\ final_particles_ = <<>>
  /\ Ex_ = 0
  /\ evMade = [by |-> "none", Ex |-> 0]
  /\ evBase = NoParticles
  /\ evSince = NoParticles
  /\ evCall = NoEventCall

ObjInit == PairInit /\ EventInit

\* count has no initializer and OdeStepper no constructor: a stepper starts
\* with whatever count its storage holds
StartCounts == {-1, 0, 1}

OdeInit ==
  /\ X = 0 /\ Y = 0 /\ DeltaX = 0
  /\ accuracy = Zero
  /\ count0 \in StartCounts
  /\ count = count0
  /\ rhsCalls = 0
  /\ odePc = "idle"
  /\ odeTarget = 0
  /\ odeArg = Zero
  /\ odeResult = "none"

NoRef == [arg |-> NoArg, tried |-> <<>>, res |-> NoResult]

\* the sets of iterations at which an accuracy test is taken to pass: never,
\* at once, early, and around the ceiling
PassPatterns ==
  { {}, {1}, {3, 7}, {SeriesMax - 1}, {SeriesMax}, {EvalCeiling - 1, SeriesMax + 1} }

OraclePatterns == { {}, {1} }

NoOracle == [p \in Primitives |-> {}]

\* the arguments of the calls made
CallInputs ==
  [fn : {"F", "G"}, L : {-1, 0, 2, 9}, eta : {-1, 0, 3},
   rho : {-1, 1, 5, 6, 7, 10, 60}]

SharedInputs == [fn : {"F"}, L : {-1, 2}, eta : {3}, rho : {1, 60}]

SequenceInputs == [fn : {"F", "G"}, L : {-1, 2}, eta : {3}, rho : {-1, 1, 5, 60}]

CallInit ==
  /\ cpc = [t \in Threads |-> "idle"]
  /\ carg = [t \in Threads |-> NoArg]
  /\ tried = [t \in Threads |-> <<>>]
  /\ cres = [t \in Threads |-> NoResult]
  /\ bernoulli = Bernoulli
  /\ lanczosC = LanczosC
  /\ ref = NoRef

OdeNext ==
  \/ \E value \in AccuracyValues : set_accuracy(value)
  \/ \E x \in 0 .. MaxX, y \in YValues, dx \in {-1, 2} : Configure(x, y, dx)
  \/ Step
  \/ \E X1 \in 0 .. MaxX : IntegrateBegin(X1)
  \/ IntegrateLoop

InitOde == OdeInit /\ CallInit /\ oracle = NoOracle /\ ObjInit

SpecOde == InitOde /\ [][OdeNext]_vars

\* the iterations at which the tests of a regime's primitives pass, any
PassChoice(P1, P2) == [p \in Primitives |-> IF p = "CF2" THEN P2 ELSE P1]

AttemptAny(t) == \E P1, P2 \in PassPatterns : Attempt(t, PassChoice(P1, P2))

\* one caller, calls one after the other, the primitives converging or not
\* in any way
Next ==
  \/ \E a \in CallInputs : Call(1, a)
  \/ Validate(1)
  \/ AttemptAny(1)
  \/ Return(1, FALSE)

Init == OdeInit /\ count0 = 0 /\ CallInit /\ oracle = NoOracle /\ ObjInit

Spec == Init /\ [][Next]_vars

\* a call, once made, runs on: no suspension point, no cancellation
SpecFair ==
  Spec /\ WF_vars(Validate(1)) /\ WF_vars(AttemptAny(1))

\* what each primitive does is a function of its arguments, fixed here for
\* the whole behaviour
Oracles == [Primitives -> OraclePatterns]

\* the threads call concurrently
ThreadsNext ==
  \E t \in Threads :
    \/ \E a \in SharedInputs : Call(t, a)
    \/ Validate(t)
    \/ Attempt(t, oracle)
    \/ Return(t, FALSE)

InitThreads == OdeInit /\ count0 = 0 /\ CallInit /\ oracle \in Oracles /\ ObjInit

SpecThreads == InitThreads /\ [][ThreadsNext]_vars

\* one caller, calls one after the other, one of them kept for comparison
SequenceNext ==
  \/ \E a \in SequenceInputs : Call(1, a)
  \/ Validate(1)
  \/ Attempt(1, oracle)
  \/ \E keep \in BOOLEAN : Return(1, keep)

InitSequence == OdeInit /\ count0 = 0 /\ CallInit /\ oracle \in Oracles /\ ObjInit

SpecSequence == InitSequence /\ [][SequenceNext]_vars

\* a SolutionPair is made and its accessors are called in any order
PairNext ==
  \/ SolutionPairDefault
  \/ \E j, jPrime, y, yPrime \in PairValues : SolutionPair(j, jPrime, y, yPrime)
  \/ \E accessor \in Accessors, value \in PairValues : Setter(accessor, value)
  \/ \E accessor \in Accessors : Getter(accessor)

InitPair == OdeInit /\ count0 = 0 /\ CallInit /\ oracle = NoOracle /\ ObjInit

SpecPair == InitPair /\ [][PairNext]_vars

\* an Event is made and its member functions are called in any order
EventNext ==
  \/ \E Ex \in ExValues : EventDefault(Ex)
  \/ \E c \in {"e"}, d \in {"K"}, Ex \in ExValues : EventTwoTwo("nu", "Ar", c, d, Ex)
  \/ \E p \in AddedParticles : add_initial_particle(p)
  \/ \E p \in AddedParticles : add_final_particle(p)
  \/ \E idx \in 0 .. MaxParticles : initial_particle(idx)
  \/ \E idx \in 0 .. MaxParticles : final_particle(idx)
  \/ clear
  \/ \E in \in Streams : read_hepevt(in)
  \/ \E in \in Streams : read(in)

InitEvent == OdeInit /\ count0 = 0 /\ CallInit /\ oracle = NoOracle /\ ObjInit

SpecEvent == InitEvent /\ [][EventNext]_vars

(***************************************************************************)
(* Claims about OdeStepper, checked under SpecOde.                         *)
(***************************************************************************)

\* v lies in the half-open interval [2^-49, 1)
InHalfOpenInterval(v) ==
  ~v.nan /\ ~v.neg /\ v.bits >= MaxAccuracy.bits /\ v.bits < One.bits

\* v lies in the open interval (2^-49, 1)
InOpenInterval(v) ==
  ~v.nan /\ ~v.neg /\ v.bits > MaxAccuracy.bits /\ v.bits < One.bits

SetAccuracyReturned == odeResult \in {"InvalidAccuracy", "AccuracySet"}

C7_SetAccuracyHalfOpen ==
  /\ odeResult = "InvalidAccuracy" =>
       ~odeArg.nan /\ ~InHalfOpenInterval(odeArg)
  /\ odeResult = "AccuracySet" =>
       (odeArg.nan \/ InHalfOpenInterval(odeArg)) /\ accuracy = odeArg

\* set_accuracy(MaxAccuracy) has been accepted and stored
C7_Witness ==
  /\ odeResult = "AccuracySet"
  /\ odeArg = MaxAccuracy
  /\ accuracy = MaxAccuracy

\* C7 (as stated): set_accuracy raises for every value outside the open
\* interval (2^-49, 1), the endpoints 2^-49 and 1 included, and stores every
\* value inside it.
C7_Original ==
  SetAccuracyReturned =>
    /\ odeResult = "InvalidAccuracy" <=> ~InOpenInterval(odeArg)
    /\ odeResult = "AccuracySet" => accuracy = odeArg

\* C19: every Evaluate adds exactly one to the evaluation count and calls
\* RightHandSide exactly once, and nothing else changes the count: over any
\* sequence of set_accuracy, Step and Integrate calls the count never
\* decreases, changes only by the number of right-hand-side evaluations made
\* in the step, and always equals the count the stepper started with plus the
\* number of right-hand-side evaluations made so far.
C19_CountIsStartPlusEvaluations ==
  /\ [](EvaluationCount = count0 + rhsCalls)
  /\ [][count' >= count]_vars
  /\ [][count' - count = rhsCalls' - rhsCalls]_vars
  /\ [][rhsCalls' = rhsCalls => count' = count]_vars

\* an Integrate call has ended on a stepper that started with a count other
\* than zero and has made three or more evaluations
C19_Witness ==
  /\ odeResult = "Integrated"
  /\ count0 # 0
  /\ rhsCalls >= 3
  /\ EvaluationCount = count0 + rhsCalls

\* the step just taken is a return of set_accuracy
SetAccuracyStep == odeResult' \in {"InvalidAccuracy", "AccuracySet"}

\* C20: a set_accuracy call that raises the invalid-accuracy error leaves
\* accuracy, X, Y, DeltaX and the evaluation count as they were; a successful
\* call stores the value in accuracy and leaves X, Y, DeltaX and the
\* evaluation count as they were.
C20_SetAccuracyFrame ==
  /\ [][odeResult' = "InvalidAccuracy" => accuracy' = accuracy]_vars
  /\ [][odeResult' = "AccuracySet" => accuracy' = odeArg']_vars
  /\ [][SetAccuracyStep =>
          X' = X /\ Y' = Y /\ DeltaX' = DeltaX /\ count' = count /\ rhsCalls' = rhsCalls]_vars

\* set_accuracy has raised on a stepper that had an accuracy set, was
\* configured and had stepped
C20_Witness ==
  /\ odeResult = "InvalidAccuracy"
  /\ accuracy = MaxAccuracy
  /\ odeArg = One
  /\ DeltaX # 0
  /\ rhsCalls > 0

(***************************************************************************)
(* Claims about CoulombF and CoulombG.                                     *)
(***************************************************************************)

\* the regimes a call has entered so far, in the order it entered them
Entered(t) ==
  [i \in 1 .. Len(tried[t]) |-> tried[t][i].regime]
    \o (IF cres[t].kind = "value" THEN << cres[t].by >> ELSE <<>>)

InvalidCall(t) == cpc[t] # "idle" /\ (carg[t].L < 0 \/ carg[t].rho < 0)

\* C1: a call of CoulombF or CoulombG with L < 0 or rho < 0, whatever eta,
\* ends in a domain error and returns no value, and no regime is entered
\* before the error: past the validation such a call is done, with a domain
\* error, no value and no regime tried.
C1_DomainErrorBeforeRegimes ==
  \A t \in Threads :
    InvalidCall(t) /\ cpc[t] # "validate" =>
      /\ cpc[t] = "done"
      /\ cres[t].kind = "DomainError"
      /\ cres[t].by = "none" /\ cres[t].iters = <<>>
      /\ tried[t] = <<>>

\* CoulombF(0, 0.0, -1.0) has ended in a domain error
C1_Witness ==
  /\ cpc[1] = "done"
  /\ carg[1] = [fn |-> "F", L |-> 0, eta |-> 0, rho |-> -1]
  /\ cres[1].kind = "DomainError"

\* the ceiling the claims name for a primitive: 250 iterations, or the
\* evaluation count ceiling of the integration
NamedCeiling(p) == IF p = "Integrate" THEN EvalCeiling ELSE 250

\* C2: a call that is done has returned a value or failed explicitly, and a
\* value it returned comes from a regime that reported convergence, each of
\* whose primitives met its accuracy test at an iteration below its ceiling;
\* no value comes from a primitive that reached its ceiling.
C2_NoSilentApproximation ==
  \A t \in Threads :
    cpc[t] = "done" =>
      \/ cres[t].kind \in {"DomainError", "ConvergenceError"}
      \/ /\ cres[t].kind = "value"
         /\ cres[t].accurate
         /\ Len(cres[t].iters) = Len(PrimitivesOf(cres[t].by))
         /\ \A i \in 1 .. Len(cres[t].iters) :
              /\ cres[t].iters[i] \in cres[t].pass[i]
              /\ cres[t].iters[i] < NamedCeiling(PrimitivesOf(cres[t].by)[i])

\* a value has been returned by a regime that converged one iteration below
\* the ceiling, after an earlier regime had run into the ceiling
C2_Witness ==
  /\ cpc[1] = "done"
  /\ cres[1].kind = "value"
  /\ cres[1].by = "Steed"
  /\ cres[1].iters = << 249, 249 >>
  /\ Len(tried[1]) = 1

\* C3: the regimes a call enters are applicable ones, entered in the order
\* series, Steed, asymptotic, integration with no applicable regime passed
\* over, each entered only when all entered before it have failed; a
\* convergence error reaches the caller only when every applicable regime has
\* been entered and has failed, and a call whose regimes have all failed ends
\* in that error.
C3_FallbackOrder ==
  LET order == << "Series", "Steed", "Asymptotic", "Integrate" >>
      pos(r) == CHOOSE i \in 1 .. 4 : order[i] = r
  IN \A t \in Threads :
       LET e == Entered(t)
           all == {r \in {"Series", "Steed", "Asymptotic", "Integrate"} : Applicable(r, carg[t])}
       IN /\ \A i \in 1 .. Len(e) : e[i] \in all
          /\ \A i \in 1 .. (Len(e) - 1) : pos(e[i]) < pos(e[i + 1])
          /\ \A i \in 1 .. Len(e) :
               \A r \in all : pos(r) < pos(e[i]) => \E j \in 1 .. (i - 1) : e[j] = r
          /\ cres[t].kind = "ConvergenceError" =>
               /\ {e[i] : i \in 1 .. Len(e)} = all
               /\ Len(tried[t]) = Len(e)
          /\ cpc[t] = "done" /\ ~InvalidCall(t) /\ cres[t].kind # "value" =>
               cres[t].kind = "ConvergenceError"
          /\ cpc[t] = "dispatch" /\ Len(tried[t]) > 0 =>
               \E r \in all : pos(r) > pos(e[Len(e)])

\* every regime applicable to CoulombF(2, -1, 60) has failed, in order, and
\* the call has ended in a convergence error
C3_Witness ==
  /\ cpc[1] = "done"
  /\ cres[1].kind = "ConvergenceError"
  /\ Entered(1) = << "Steed", "Asymptotic" >>

\* C4: no call is left iterating for ever, and every call that has been made
\* reaches its end, a returned value or a reported failure.
C4_CallsTerminate ==
  /\ [](\A t \in Threads : cpc[t] # "running")
  /\ (cpc[1] = "validate") ~> (cpc[1] = "done")

\* a call has ended after two of its regimes ran into the ceiling of 250
C4_Witness ==
  /\ cpc[1] = "done"
  /\ Len(tried[1]) >= 2
  /\ \A i \in 1 .. Len(tried[1]) : tried[1][i].iters[Len(tried[1][i].iters)] >= 250

\* C5: the power series returns at the first iteration at which its accuracy
\* test passes, if that iteration is below 250; otherwise it reaches the
\* ceiling of 250, fails with a convergence error and yields no result.
C5_SeriesStopsOrFails ==
  \A t \in Threads :
    /\ cres[t].kind = "value" /\ cres[t].by = "Series" =>
         LET k == cres[t].iters[1]
         IN /\ k \in cres[t].pass[1]
            /\ k < 250
            /\ \A j \in 1 .. (k - 1) : j \notin cres[t].pass[1]
    /\ \A i \in 1 .. Len(tried[t]) :
         tried[t][i].regime = "Series" =>
           /\ tried[t][i].iters = << 250 >>
           /\ \A j \in 1 .. 249 : j \notin tried[t][i].pass[1]
           /\ ~(cres[t].kind = "value" /\ cres[t].by = "Series")

\* the series has returned at iteration 3, the first of the iterations 3 and
\* 7 at which its test passes
C5_Witness ==
  /\ cres[1].kind = "value"
  /\ cres[1].by = "Series"
  /\ cres[1].iters = << 3 >>
  /\ cres[1].pass[1] = {3, 7}

\* the outcome of a call made alone, with the tables as initialized: the
\* regimes that fail and the result
RECURSIVE SoloFrom(_, _, _)
SoloFrom(a, failed, passOf) ==
  LET r == NextRegime(a, failed)
      run == RunRegime(r, passOf)
  IN IF r = "none" THEN << failed, ConvergenceError >>
     ELSE IF run.converged THEN << failed, ValueWith(r, run, passOf, Bernoulli, LanczosC) >>
     ELSE SoloFrom(a, Append(failed, Failure(r, run, passOf)), passOf)

Solo(a, passOf) ==
  IF a.L < 0 \/ a.rho < 0 THEN << <<>>, DomainError >> ELSE SoloFrom(a, <<>>, passOf)

Local(t) == << cpc[t], carg[t], tried[t], cres[t] >>

BelowTurningPoint(a) ==
  \/ a.rho - a.eta < 0
  \/ (a.rho - a.eta) * (a.rho - a.eta) < a.eta * a.eta + a.L * (a.L + 1)

\* the calls in which CF2 has been invoked: a regime with CF2 among its
\* primitives has run far enough to reach it
InvokedCF2(t) ==
  \/ \E i \in 1 .. Len(tried[t]) :
       /\ tried[t][i].regime = "Steed"
       /\ Len(tried[t][i].iters) = 2
  \/ cres[t].kind = "value" /\ cres[t].by = "Steed"

C11_SolutionPairMutable ==
  /\ [][pairMade.by = "none" /\ pairMade'.by = "values" => pair' = pairMade'.args]_vars
  /\ [][pairMade.by # "none" /\ pairCall'.op # "set" => pair' = pair]_vars
  /\ [][pairCall'.op = "set" =>
          /\ pair'[pairCall'.field] = pairCall'.value
          /\ \A f \in PairFields \ {pairCall'.field} : pair'[f] = pair[f]]_vars
  /\ [][pairCall'.op = "get" =>
          pair' = pair /\ pairCall'.value = pair[pairCall'.field]]_vars

\* a pair constructed with (0, 0, 0, 0) has had its second solution value set
\* to 1 and the getter has returned 1
C11_Witness ==
  /\ pairMade.by = "values"
  /\ pairMade.args = [f \in PairFields |-> 0]
  /\ pairCall = [op |-> "get", field |-> "y", value |-> 1]

\* C11 (as stated): once constructed with (j, jPrime, y, yPrime) every getter
\* returns the constructed value, whatever was called in between.
C11_Original ==
  pairMade.by = "values" =>
    \A accessor \in Accessors : GetField(pair, accessor) = pairMade.args[FieldOf(accessor)]

(***************************************************************************)
(* Claims about Event, checked under SpecEvent.                            *)
(***************************************************************************)

\* the last call was op and returned without throwing
Returned(op) == evCall.op = op /\ ~evCall.thrown

\* C14 (as amended): initial_particle(idx) throws std::out_of_range exactly
\* when idx >= initial_particle_count() and otherwise returns the element at
\* position idx of the vector of initial particles; that vector holds the
\* particles the constructor or the last read put there (a newly constructed
\* Event holds two), followed by the particles added since, so it is the
\* idx-th particle added since the last clear only when a clear, and no read,
\* came before.  The same holds for final_particle(idx) and
\* final_particle_count().
C14_IndexedAccess ==
  /\ initial_particles_ = evBase.initial \o evSince.initial
  /\ final_particles_ = evBase.final \o evSince.final
  /\ evCall.op = "initial_particle" =>
       /\ evCall.thrown <=> evCall.idx >= initial_particle_count
       /\ ~evCall.thrown => evCall.result = (evBase.initial \o evSince.initial)[evCall.idx + 1]
  /\ evCall.op = "final_particle" =>
       /\ evCall.thrown <=> evCall.idx >= final_particle_count
       /\ ~evCall.thrown => evCall.result = (evBase.final \o evSince.final)[evCall.idx + 1]
  /\ evCall.afterClear /\ evCall.op \in {"initial_particle", "final_particle"} =>
       evCall.thrown

\* initial_particle(2) has returned the particle added to a newly constructed
\* Event, which follows the two particles of the constructor
C14_Witness ==
  /\ Returned("initial_particle")
  /\ evCall.idx = 2
  /\ Len(evBase.initial) = 2
  /\ evSince.initial = << "e" >>
  /\ evCall.result = "e"

\* C14 (as stated): initial_particle(idx) throws exactly when
\* idx >= initial_particle_count() and otherwise returns the idx-th particle
\* added since the last clear; likewise final_particle(idx).
C14_Original ==
  /\ evCall.op = "initial_particle" =>
       /\ evCall.thrown <=> evCall.idx >= initial_particle_count
       /\ ~evCall.thrown =>
            /\ evCall.idx < Len(evSince.initial)
            /\ evCall.result = evSince.initial[evCall.idx + 1]
  /\ evCall.op = "final_particle" =>
       /\ evCall.thrown <=> evCall.idx >= final_particle_count
       /\ ~evCall.thrown =>
            /\ evCall.idx < Len(evSince.final)
            /\ evCall.result = evSince.final[evCall.idx + 1]

\* C15: read_hepevt returns true only if the stream was in a good state after
\* the attempt to read the record, and whenever it returns false the event
\* holds no initial and no final particles, whatever it held before and
\* whatever part of a record the stream held.
C15_ReadHepevtFalseClears ==
  /\ Returned("read_hepevt") /\ evCall.result = "true" => evCall.good
  /\ Returned("read_hepevt") /\ evCall.result = "false" =>
       /\ ~evCall.good
       /\ initial_particle_count = 0
       /\ final_particle_count = 0

\* read_hepevt has returned false on an event that held particles
C15_Witness ==
  /\ Returned("read_hepevt")
  /\ evCall.result = "false"
  /\ evCall.held
  /\ initial_particles_ = <<>> /\ final_particles_ = <<>>

\* C16: after clear() the event has no initial particles, no final particles
\* and excitation energy zero, and a clear() that follows a clear() changes
\* nothing.
C16_ClearEmptiesAndIsIdempotent ==
  /\ [](evCall.op = "clear" =>
          initial_particle_count = 0 /\ final_particle_count = 0 /\ Ex_ = 0)
  /\ [][evCall.op = "clear" /\ evCall'.op = "clear" =>
          << initial_particles_, final_particles_, Ex_ >>' =
            << initial_particles_, final_particles_, Ex_ >>]_vars

\* an Event constructed with a non-zero excitation energy has been cleared
\* twice in a row
C16_Witness ==
  /\ evCall.op = "clear"
  /\ evCall.afterClear
  /\ evMade.Ex # 0
  /\ Ex_ = 0

====
